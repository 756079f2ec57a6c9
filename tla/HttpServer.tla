----------------------------- MODULE HttpServer -----------------------------
(***************************************************************************)
(* The http server of winext: http_connection (temp.hpp), which receives a *)
(* request, starts the next connection, reads the body, calls the user's   *)
(* handler and sends its response, on the asynchronous operations of       *)
(* basic_http_handle (basic_http_handle.hpp).                              *)
(***************************************************************************)
EXTENDS HttpSys, FiniteSets

(* One operation is outstanding per connection: a connection is its Op.    *)
(* The pool must exceed the requests, so that make_shared never lacks one. *)
Connections == Ops
ASSUME PoolAssumption == Cardinality(Ops) > Cardinality(Requests)

VARIABLES
  op,        \* [Connections -> Operation]: the outstanding one; its handler holds self
  req,       \* [Connections -> Requests \cup {NoRequest}]: RequestId in request_
  spawning,  \* connections whose receive handler has yet to start the next one
  started    \* the first connection was started

connVars == <<op, req, spawning, started>>
vars == <<httpSysVars, connVars>>

Operation == {"none", "receive", "body", "send"}

TypeOK ==
  /\ HttpSysTypeOK
  /\ op \in [Connections -> Operation]
  /\ req \in [Connections -> Requests \cup {NoRequest}]
  /\ spawning \in SUBSET Connections
  /\ started \in BOOLEAN
  /\ \A c \in Connections : op[c] \in {"body", "send"} => req[c] \in Requests

Init ==
  /\ HttpSysInit
  /\ op = [c \in Connections |-> "none"]
  /\ req = [c \in Connections |-> NoRequest]
  /\ spawning = {}
  /\ started = FALSE

-----------------------------------------------------------------------------
(* The asynchronous operations.  ERROR_IO_PENDING and NO_ERROR release the *)
(* OVERLAPPED to the kernel, which posts the packet; after any other       *)
(* result overlapped_ptr::complete posts it.  The packets are added to     *)
(* `port', the completion port after the running handler's was taken off.  *)

(* async_recieve_request, with the null request id of a fresh request_     *)
async_recieve_request(c, port) ==
  /\ \/ \E r \in Requests :
          /\ request[r] = "queued"
          /\ request' = [request EXCEPT ![r] = "held"]
          /\ packets' = Posted(port, c, Received(r))
          /\ UNCHANGED waiting
     \/ /\ \A r \in Requests : request[r] # "queued"
        /\ Await(c, "request")
        /\ packets' = port
        /\ UNCHANGED request
  /\ UNCHANGED <<registered, arrived, answers>>

(* Mutant: the call's NO_ERROR is completed although the kernel posts too. *)
async_recieve_body_CompletesOk(c, r, port) ==
  /\ LET got == Result("ok", r, IF Size[r] = 0 THEN 0 ELSE 1)
     IN  IF arrived[r] > 0 \/ Ended(r)
           THEN packets' = Posted(Posted(port, c, got), c, got) /\ UNCHANGED waiting
           ELSE packets' = port /\ Await(c, r)
  /\ UNCHANGED <<registered, request, arrived, answers>>

(* Mutant: the end of the body is an error like any other.                 *)
async_recieve_body_EofFails(c, r, port) ==
  /\ \/ /\ request[r] = "held" /\ arrived[r] > 0
        /\ packets' = Posted(port, c, Result("ok", r, 1))
        /\ UNCHANGED waiting
     \/ /\ request[r] = "held" /\ arrived[r] = 0 /\ ~Ended(r)
        /\ packets' = port
        /\ Await(c, r)
     \/ /\ request[r] # "held" \/ (Ended(r) /\ arrived[r] = 0)
        /\ packets' = Posted(port, c, Result("eof", r, 0))
        /\ UNCHANGED waiting
  /\ UNCHANGED <<registered, request, arrived, answers>>

(* async_recieve_body.  ERROR_HANDLE_EOF from the call itself is success;  *)
(* when a pending call ends with it, the handler gets it as an error.      *)
async_recieve_body(c, r, port) ==
  /\ \/ /\ request[r] = "held"
        /\ arrived[r] > 0 \/ Ended(r)
        /\ packets' = Posted(port, c, Result("ok", r, IF Size[r] = 0 THEN 0 ELSE 1))
        /\ UNCHANGED waiting
     \/ /\ request[r] = "held"
        /\ arrived[r] = 0 /\ ~Ended(r)
        /\ packets' = port
        /\ Await(c, r)
     \/ /\ request[r] # "held"
        /\ packets' = Posted(port, c, Result("gone", r, 0))
        /\ UNCHANGED waiting
  /\ UNCHANGED <<registered, request, arrived, answers>>

(* async_send_response with HTTP_SEND_RESPONSE_FLAG_DISCONNECT             *)
async_send_response(c, r, answer, port) ==
  /\ \/ /\ request[r] = "held"
        /\ request' = [request EXCEPT ![r] = "answered"]
        /\ answers' = [answers EXCEPT ![r] = Append(@, answer)]
        /\ packets' = Posted(port, c, Result("ok", r, 0))
     \/ /\ request[r] # "held"
        /\ packets' = Posted(port, c, Result("gone", r, 0))
        /\ UNCHANGED <<request, answers>>
  /\ UNCHANGED <<registered, arrived, waiting>>

-----------------------------------------------------------------------------
(* The program: open_raw_http_queue, assign and http_simple_url; then a    *)
(* first connection; at the end the destructors, after stop() and join().  *)

Free == {c \in Connections : op[c] = "none" /\ c \notin spawning}

OpenQueue ==
  /\ ~registered
  /\ registered' = TRUE
  /\ UNCHANGED <<request, arrived, answers, waiting, packets, connVars>>

(* make_shared<http_connection>(queue, handler)->start(); which of the     *)
(* free blocks make_shared takes makes no difference.                      *)
NewConnection ==
  LET c == CHOOSE free \in Free : TRUE IN
    /\ Free # {}
    /\ async_recieve_request(c, packets)
    /\ op' = [op EXCEPT ![c] = "receive"]
    /\ req' = [req EXCEPT ![c] = NoRequest]

Start ==
  /\ registered /\ ~started
  /\ NewConnection
  /\ started' = TRUE
  /\ UNCHANGED spawning

Shutdown ==
  /\ started /\ spawning = {}
  /\ CloseQueue
  /\ started' = FALSE
  /\ op' = [c \in Connections |-> "none"]
  /\ UNCHANGED <<req, spawning>>

-----------------------------------------------------------------------------
(* http_connection: the completion handlers.                               *)

Completed(c, operation) == op[c] = operation /\ packets[c] # << >>
Ec(c) == Head(packets[c]).ec

(* The operation ended with an error, or was the last: self goes.          *)
Release(c) ==
  /\ op' = [op EXCEPT ![c] = "none"]
  /\ packets' = Taken(packets, c)
  /\ UNCHANGED <<registered, request, arrived, answers, waiting, req, spawning, started>>

(* Mutant: the request id is not taken from the received request.          *)
ReceiveHandler_NullId(c) ==
  /\ Completed(c, "receive")
  /\ \/ Ec(c) # "ok" /\ Release(c)
     \/ /\ Ec(c) = "ok"
        /\ async_recieve_body(c, Head(packets[c]).req, Taken(packets, c))
        /\ op' = [op EXCEPT ![c] = "body"]
        /\ spawning' = spawning \cup {c}
        /\ UNCHANGED <<req, started>>

(* Mutant: no other connection is started.                                 *)
ReceiveHandler_NoNext(c) ==
  /\ Completed(c, "receive")
  /\ \/ Ec(c) # "ok" /\ Release(c)
     \/ /\ Ec(c) = "ok"
        /\ LET r == Head(packets[c]).req IN
             /\ req' = [req EXCEPT ![c] = r]
             /\ async_recieve_body(c, r, Taken(packets, c))
        /\ op' = [op EXCEPT ![c] = "body"]
        /\ UNCHANGED <<spawning, started>>

(* The handler of receive_request: on_receive_request asks for the body;   *)
(* with an error there is no next connection.                              *)
ReceiveHandler(c) ==
  /\ Completed(c, "receive")
  /\ \/ Ec(c) # "ok" /\ Release(c)
     \/ /\ Ec(c) = "ok"
        /\ LET r == Head(packets[c]).req IN
             /\ req' = [req EXCEPT ![c] = r]
             /\ async_recieve_body(c, r, Taken(packets, c))
        /\ op' = [op EXCEPT ![c] = "body"]
        /\ spawning' = spawning \cup {c}
        /\ UNCHANGED started

(* Mutant: the connection itself receives the next request.                *)
StartNext_Reuses(c) ==
  /\ c \in spawning
  /\ async_recieve_request(c, packets)
  /\ op' = [op EXCEPT ![c] = "receive"]
  /\ req' = [req EXCEPT ![c] = NoRequest]
  /\ spawning' = spawning \ {c}
  /\ UNCHANGED started

(* ... and then it starts another connection.  Another thread may handle   *)
(* the body before it does.                                                *)
StartNext(c) ==
  /\ c \in spawning
  /\ NewConnection
  /\ spawning' = spawning \ {c}
  /\ UNCHANGED started

(* Mutant: one request block for all connections.                          *)
BodyHandler_SharedRequest(c) ==
  /\ Completed(c, "body")
  /\ \/ Ec(c) # "ok" /\ Release(c)
     \/ /\ Ec(c) = "ok"
        /\ \E d \in Connections :
             /\ op[d] = "body"
             /\ async_send_response(c, req[c],
                  [req |-> req[d], len |-> Head(packets[c]).len], Taken(packets, c))
        /\ op' = [op EXCEPT ![c] = "send"]
        /\ UNCHANGED <<req, spawning, started>>

(* on_recieve_body: the user's handler fills the response from the request *)
(* and as much of the body as this read returned.                          *)
BodyHandler(c) ==
  /\ Completed(c, "body")
  /\ \/ Ec(c) # "ok" /\ Release(c)
     \/ /\ Ec(c) = "ok"
        /\ LET answer == [req |-> req[c], len |-> Head(packets[c]).len]
           IN  async_send_response(c, req[c], answer, Taken(packets, c))
        /\ op' = [op EXCEPT ![c] = "send"]
        /\ UNCHANGED <<req, spawning, started>>

SendHandler(c) == Completed(c, "send") /\ Release(c)

-----------------------------------------------------------------------------
Handler(c) == ReceiveHandler(c) \/ StartNext(c) \/ BodyHandler(c) \/ SendHandler(c)

Client(r) == Arrive(r) \/ BodyArrives(r) \/ Abort(r)

Next ==
  \/ OpenQueue \/ Start \/ Shutdown
  \/ \E c \in Connections : Handler(c)
  \/ \E r \in Requests : Client(r) /\ UNCHANGED connVars

(* main starts the first connection once the queue is open, and threads    *)
(* inside run() take every packet and finish every handler.                *)
(* http.sys gives up a client that stops sending its body.  No request,    *)
(* and no end of the server, is promised.                                  *)
Fairness ==
  /\ WF_vars(Start)
  /\ \A c \in Connections : WF_vars(Handler(c))
  /\ \A r \in Requests :
       WF_vars((BodyArrives(r) \/ (~Ended(r) /\ Abort(r))) /\ UNCHANGED connVars)

Spec == Init /\ [][Next]_vars
FairSpec == Spec /\ Fairness

-----------------------------------------------------------------------------
(* Properties.                                                             *)

(* Each OVERLAPPED is completed once, by the kernel or by the program, and *)
(* only while the connection it belongs to lives: a second packet would    *)
(* reach an operation that is freed ("do not complete here, else iocp is   *)
(* corrupted", basic_http_handle.hpp:225).                                 *)
CompletesOnce ==
  \A c \in Connections :
    LET ending == Len(packets[c]) + (IF waiting[c] = "nothing" THEN 0 ELSE 1)
    IN  ending = (IF op[c] = "none" THEN 0 ELSE 1)

(* The chain of connections: while the server runs there is exactly one    *)
(* that receives or is about to be started, so requests are neither left   *)
(* waiting nor raced for; only a request too big for the buffer ends it.   *)
Receivers == {c \in Connections : op[c] = "receive"}
OneReceiver ==
  LET n == Cardinality(Receivers) + Cardinality(spawning)
  IN  /\ n <= 1
      /\ started /\ (\A r \in Big : request[r] \in {"absent", "queued"}) => n = 1

(* A client is answered once at most, with the response the handler made   *)
(* from this client's request and from a piece of its body that had        *)
(* arrived, whatever the connections overtook each other at.               *)
AnsweredFromOwnRequest ==
  \A r \in Requests :
    /\ Len(answers[r]) <= 1
    /\ \A i \in DOMAIN answers[r] :
         answers[r][i].req = r /\ answers[r][i].len <= arrived[r]

(* A request whose headers fit and whose body the server can end is        *)
(* answered, or its client leaves, as long as no big request came: both    *)
(* one that a waiting connection gets on arrival and one that is queued.   *)
Fits(r) == r \notin Big /\ (Size[r] > 0 \/ r \notin Chunked)
AnsweredUnlessBig ==
  [](\A r \in Big : request[r] # "held") =>
    \A r \in Requests : Fits(r) =>
      request[r] \in {"queued", "held"} ~> request[r] \in {"answered", "aborted"}

(* The connection has the request in its hands.                            *)
Serves(c, r) ==
  \/ op[c] = "receive" /\ \E i \in DOMAIN packets[c] : packets[c][i].req = r
  \/ op[c] \in {"body", "send"} /\ req[c] = r

(* No request is forgotten: while one is queued no connection waits for    *)
(* any, and one whose headers fit and whose body can be ended stays with   *)
(* a connection until it is answered or its client leaves.                 *)
NoneForgotten ==
  \A r \in Requests :
    /\ request[r] = "queued" => \A c \in Connections : waiting[c] # "request"
    /\ request[r] = "held" /\ Fits(r) => \E c \in Connections : Serves(c, r)

(* The chain of connections implements HttpService: whatever threads,      *)
(* clients and shutdowns do between the three handlers, a request goes to  *)
(* one connection, once, and only that connection answers it.              *)
StageOf(r) ==
  CASE request[r] = "queued"  -> "waiting"
    [] request[r] = "held"    -> "served"
    [] request[r] = "aborted" -> "dropped"
    [] OTHER -> request[r]
Service == INSTANCE HttpService
  WITH stage <- [r \in Requests |-> StageOf(r)],
       servers <- [r \in Requests |-> {c \in Connections : Serves(c, r)}]
ServiceSpec == Service!Spec

(* "all request data is ready, invoke use handler" (temp.hpp:109): the     *)
(* handler of an answered request has seen the whole body.                 *)
HandlerSeesWholeBody ==
  \A r \in Requests : \A i \in DOMAIN answers[r] : answers[r][i].len = Size[r]

(* "no more data. success." (basic_http_handle.hpp:178): a request without *)
(* a body is answered, unless its client leaves.                           *)
EmptyBodyAnswered ==
  \A r \in Requests : Size[r] = 0 =>
    request[r] = "held" ~> request[r] \in {"answered", "aborted"}
=============================================================================
